---- MODULE Spec2Model ----
(***************************************************************************)
(* Warbler (src/app.py): the request handlers of a micro-blogging site,   *)
(* as a state machine over the User, Message, Follow and Like stores and  *)
(* the client sessions.  One action per request handler; a request runs   *)
(* add_user_to_g, then the handler, then its commit.                      *)
(*                                                                         *)
(* models.py and forms.py are not part of the sources at hand: the store  *)
(* behaviour the handlers rely on (unique username / email, the follow    *)
(* pair as composite identity, foreign keys that cascade, password        *)
(* hashing) follows the data model of the specification.  The message     *)
(* text and the profile's presentation fields are not modelled: no        *)
(* handler branches on them.  The handlers that only render a form or a   *)
(* listing (login_form, signup_form, messages_add_form, list_users,       *)
(* show_following, users_followers, messages_show, update_profile_Form)   *)
(* change no state and are left out.                                       *)
(***************************************************************************)
EXTENDS Integers, Sequences, FiniteSets, Bags, TLC

\* ---------------------------------------------------------------- bounds
MaxUsers == 2          \* user ids ever generated
MaxMsgs  == 2          \* message ids ever generated
MaxTime  == 2          \* latest value of the wall clock
MaxRequests == 6       \* requests served in one run

\* ------------------------------------------------------------- constants
NoKey == 0             \* the session holds no CURR_USER_KEY / g.user is None
TimelineLimit == 100   \* .limit(100) of the homepage query

Clients   == {"c1", "c2"}
Usernames == {"alice", "bob"}
Emails    == {"a@x.io", "b@x.io"}
Passwords == {"pw1", "pw2"}

\* The signup forms submitted: two distinct identities, and one that takes the
\* first one's username with another email.
SignupForms ==
    {[username |-> "alice", email |-> "a@x.io", password |-> "pw1"],
     [username |-> "bob",   email |-> "b@x.io", password |-> "pw2"],
     [username |-> "alice", email |-> "b@x.io", password |-> "pw2"]}

\* The username and email of the profile forms submitted.
ProfileForms ==
    {[username |-> "alice", email |-> "a@x.io"],
     [username |-> "bob",   email |-> "a@x.io"]}

UserIds == 1..MaxUsers
MsgIds  == 1..MaxMsgs

VARIABLES
    users,       \* User store:    id -> [username, email, password (hash)]
    messages,    \* Message store: id -> [user_id, timestamp]
    follows,     \* Follow store:  set of <<user_following_id, user_being_followed_id>>
    likes,       \* Like store:    bag of <<user_id, message_id>> rows
    session,     \* client -> the id under CURR_USER_KEY, or NoKey
    nextUserId,  \* next generated user id
    nextMsgId,   \* next generated message id
    clock,       \* wall clock (non-decreasing)
    nreq,        \* number of requests served so far
    last,        \* the last request and its response
    pre,         \* the stores and sessions as they were before the last request
    pre2,        \* the same before the request preceding the last one, kept when
                 \* that one was an add_follow or add_like of the same client with
                 \* the same argument (on = FALSE otherwise)
    pending      \* worker -> the add_like request it is in the middle of serving

stores == <<users, messages, follows, likes>>
vars == <<users, messages, follows, likes, session, nextUserId, nextMsgId, clock,
          nreq, last, pre, pre2, pending>>

Snapshot ==
    [users |-> users, messages |-> messages, follows |-> follows, likes |-> likes,
     session |-> session]

\* ------------------------------------------------------- store helpers
Hash(p) == <<"bcrypt", p>>

\* User.authenticate(username, password): the matching user's id, or NoKey.
authenticate(username, password) ==
    LET hit == {i \in DOMAIN users : /\ users[i].username = username
                                     /\ users[i].password = Hash(password)}
    IN IF hit = {} THEN NoKey ELSE CHOOSE i \in hit : TRUE

\* A slip: only the username column is unique.
IntegrityError_username_only(username, email, except) ==
    \E i \in DOMAIN users \ {except} : users[i].username = username

\* A username or an email already held by a user other than `except`.
IntegrityError(username, email, except) ==
    \E i \in DOMAIN users \ {except} :
        users[i].username = username \/ users[i].email = email

Drop(f, S) == [x \in DOMAIN f \ S |-> f[x]]

OneLike(u, m) == SetToBag({<<u, m>>})

NoSnapshot ==
    [users |-> <<>>, messages |-> <<>>, follows |-> {}, likes |-> EmptyBag,
     session |-> [c \in Clients |-> NoKey]]

NoPair == [on |-> FALSE, op |-> "none", out |-> "none", snap |-> NoSnapshot]

\* ------------------------------------------------- session / identity
\* add_user_to_g: g.user for a request of client c (NoKey stands for None).
g_user(c) ==
    IF session[c] # NoKey /\ session[c] \in DOMAIN users THEN session[c] ELSE NoKey

\* A slip: the id is kept in one place shared by all clients.
do_login_shared(c, id) == [x \in Clients |-> id]

do_login(c, id) == [session EXCEPT ![c] = id]

do_logout(c) == [session EXCEPT ![c] = NoKey]

\* A request that carries no form.
NoForm == [username |-> "", email |-> "", password |-> ""]

\* The response of a request is recorded, with the state it was served in.
Served(op, c, arg, out, view, form) ==
    /\ last' = [op |-> op, client |-> c, arg |-> arg, out |-> out, view |-> view,
                form |-> form]
    /\ pre' = Snapshot
    /\ pre2' = IF /\ last.op \in {"add_follow", "add_like"}
                  /\ last.client = c
                  /\ last.arg = arg
               THEN [on |-> TRUE, op |-> last.op, out |-> last.out, snap |-> pre]
               ELSE NoPair
    /\ nreq' = nreq + 1

\* A request served in one piece: no worker's position moves.
RespondForm(op, c, arg, out, view, form) ==
    /\ Served(op, c, arg, out, view, form)
    /\ pending' = pending

Respond(op, c, arg, out, view) == RespondForm(op, c, arg, out, view, NoForm)

\* ------------------------------------------------------------- signup
\* A slip in the handler: no except clause, the IntegrityError escapes.
signup_unhandled(c, username, email, password) ==
    /\ nextUserId <= MaxUsers
    /\ IF IntegrityError(username, email, NoKey)
       THEN /\ RespondForm("signup", c, 0, "ServerError", <<>>,
                    [username |-> username, email |-> email, password |-> password])
            /\ UNCHANGED <<stores, session, nextUserId, nextMsgId, clock>>
       ELSE /\ users' = [i \in DOMAIN users \cup {nextUserId} |->
                            IF i = nextUserId
                            THEN [username |-> username, email |-> email,
                                  password |-> Hash(password)]
                            ELSE users[i]]
            /\ nextUserId' = nextUserId + 1
            /\ session' = do_login(c, nextUserId)
            /\ RespondForm("signup", c, 0, "RedirectHome", <<>>,
                    [username |-> username, email |-> email, password |-> password])
            /\ UNCHANGED <<messages, follows, likes, nextMsgId, clock>>

signup(c, username, email, password) ==
    /\ nextUserId <= MaxUsers
    /\ IF IntegrityError(username, email, NoKey)
       THEN /\ RespondForm("signup", c, 0, "SignupForm", <<>>,
                    [username |-> username, email |-> email, password |-> password])
            /\ UNCHANGED <<stores, session, nextUserId, nextMsgId, clock>>
       ELSE /\ users' = [i \in DOMAIN users \cup {nextUserId} |->
                            IF i = nextUserId
                            THEN [username |-> username, email |-> email,
                                  password |-> Hash(password)]
                            ELSE users[i]]
            /\ nextUserId' = nextUserId + 1
            /\ session' = do_login(c, nextUserId)
            /\ RespondForm("signup", c, 0, "RedirectHome", <<>>,
                    [username |-> username, email |-> email, password |-> password])
            /\ UNCHANGED <<messages, follows, likes, nextMsgId, clock>>

\* -------------------------------------------------------------- login
login(c, username, password) ==
    LET user == authenticate(username, password) IN
    IF user # NoKey
    THEN /\ session' = do_login(c, user)
         /\ RespondForm("login", c, 0, "RedirectHome", <<>>,
                    [username |-> username, email |-> "", password |-> password])
         /\ UNCHANGED <<stores, nextUserId, nextMsgId, clock>>
    ELSE \* flash("Invalid credentials.") and no return value: the view fails
         /\ RespondForm("login", c, 0, "ServerError", <<>>,
                    [username |-> username, email |-> "", password |-> password])
         /\ UNCHANGED <<stores, session, nextUserId, nextMsgId, clock>>

\* ------------------------------------------------------------- logout
logout(c) ==
    IF session[c] = NoKey
    THEN \* session[CURR_USER_KEY] raises KeyError
         /\ Respond("logout", c, 0, "ServerError", <<>>)
         /\ UNCHANGED <<stores, session, nextUserId, nextMsgId, clock>>
    ELSE IF session[c] \notin DOMAIN users
    THEN /\ Respond("logout", c, 0, "NotFound", <<>>)
         /\ UNCHANGED <<stores, session, nextUserId, nextMsgId, clock>>
    ELSE /\ session' = do_logout(c)
         /\ Respond("logout", c, 0, "RedirectLogin", <<>>)
         /\ UNCHANGED <<stores, nextUserId, nextMsgId, clock>>

\* --------------------------------------------------- follow / unfollow
\* The Follow store holds a pair at most once: adding a pair it holds changes
\* nothing.
InsertFollow(fs, e) == fs \cup {e}

DeleteFollow(fs, e) == fs \ {e}

\* A slip in the handler: the pair is stored the wrong way round.
following_append_reversed(u, v) == InsertFollow(follows, <<v, u>>)

\* g.user.following.append(followed_user); commit
following_append(u, v) == InsertFollow(follows, <<u, v>>)

\* A slip in the handler: the pair is removed the wrong way round.
following_remove_reversed(u, v) == DeleteFollow(follows, <<v, u>>)

\* g.user.following.remove(followed_user); commit
following_remove(u, v) == DeleteFollow(follows, <<u, v>>)

add_follow(c, follow_id) ==
    LET u == g_user(c) IN
    IF u = NoKey
    THEN /\ Respond("add_follow", c, follow_id, "Unauthorized", <<>>)
         /\ UNCHANGED <<stores, session, nextUserId, nextMsgId, clock>>
    ELSE IF follow_id \notin DOMAIN users
    THEN /\ Respond("add_follow", c, follow_id, "NotFound", <<>>)
         /\ UNCHANGED <<stores, session, nextUserId, nextMsgId, clock>>
    ELSE /\ follows' = following_append(u, follow_id)
         /\ Respond("add_follow", c, follow_id, "RedirectFollowing", <<>>)
         /\ UNCHANGED <<users, messages, likes, session, nextUserId, nextMsgId, clock>>

stop_following(c, follow_id) ==
    LET u == g_user(c) IN
    IF u = NoKey
    THEN /\ Respond("stop_following", c, follow_id, "Unauthorized", <<>>)
         /\ UNCHANGED <<stores, session, nextUserId, nextMsgId, clock>>
    ELSE IF <<u, follow_id>> \notin follows
    THEN \* list.remove(x) with x (possibly None) not in the list: ValueError
         /\ Respond("stop_following", c, follow_id, "ServerError", <<>>)
         /\ UNCHANGED <<stores, session, nextUserId, nextMsgId, clock>>
    ELSE /\ follows' = following_remove(u, follow_id)
         /\ Respond("stop_following", c, follow_id, "RedirectFollowing", <<>>)
         /\ UNCHANGED <<users, messages, likes, session, nextUserId, nextMsgId, clock>>

\* -------------------------------------------------------- delete_user
\* A slip in the handler: the query without its filter.
messages_to_delete_unfiltered(u) == DOMAIN messages

\* A slip: the user's messages are not collected before the user is deleted.
messages_to_delete_none(u) == {}

\* Message.query.filter(Message.user_id == curr_user.id).all()
messages_to_delete(u) == {m \in DOMAIN messages : messages[m].user_id = u}

\* Deleting message rows: the likes on them go with them (foreign key).
LikesWithoutMessages(b, S) == [e \in {x \in DOMAIN b : x[2] \notin S} |-> b[e]]

\* Deleting a user row: the likes of that user go with it (foreign key).
LikesWithoutUser(b, u) == [e \in {x \in DOMAIN b : x[1] # u} |-> b[e]]

\* Deleting a user row: its follow rows go with it (foreign key).
FollowsWithoutUser(u) == {p \in follows : p[1] # u /\ p[2] # u}

\* fails: the deletion of the user record (the handler's second commit) fails,
\* or the request is cut short before it.
delete_user(c, fails) ==
    LET u    == g_user(c)
        gone == messages_to_delete(u)
    IN
    IF u = NoKey
    THEN /\ ~fails
         /\ Respond("delete_user", c, 0, "Unauthorized", <<>>)
         /\ UNCHANGED <<stores, session, nextUserId, nextMsgId, clock>>
    ELSE IF fails
    THEN \* the first commit has persisted the deletion of the messages
         /\ messages' = Drop(messages, gone)
         /\ likes' = LikesWithoutMessages(likes, gone)
         /\ Respond("delete_user", c, 0, "ServerError", <<>>)
         /\ UNCHANGED <<users, follows, session, nextUserId, nextMsgId, clock>>
    ELSE /\ messages' = Drop(messages, gone)
         /\ users' = Drop(users, {u})
         /\ follows' = FollowsWithoutUser(u)
         /\ likes' = LikesWithoutUser(LikesWithoutMessages(likes, gone), u)
         /\ session' = do_logout(c)
         /\ Respond("delete_user", c, 0, "RedirectSignup", <<>>)
         /\ UNCHANGED <<nextUserId, nextMsgId, clock>>

\* ----------------------------------------------------------- messages
\* now: the creation time the store stamps on the message.
messages_add(c, now) ==
    LET u == g_user(c) IN
    IF u = NoKey
    THEN /\ now = clock
         /\ Respond("messages_add", c, 0, "Unauthorized", <<>>)
         /\ UNCHANGED <<stores, session, nextUserId, nextMsgId, clock>>
    ELSE /\ nextMsgId <= MaxMsgs
         /\ messages' = [m \in DOMAIN messages \cup {nextMsgId} |->
                            IF m = nextMsgId
                            THEN [user_id |-> u, timestamp |-> now]
                            ELSE messages[m]]
         /\ nextMsgId' = nextMsgId + 1
         /\ clock' = now
         /\ Respond("messages_add", c, 0, "RedirectProfile", <<>>)
         /\ UNCHANGED <<users, follows, likes, session, nextUserId>>

messages_destroy(c, message_id) ==
    LET u == g_user(c) IN
    IF u = NoKey
    THEN /\ Respond("messages_destroy", c, message_id, "Unauthorized", <<>>)
         /\ UNCHANGED <<stores, session, nextUserId, nextMsgId, clock>>
    ELSE IF message_id \notin DOMAIN messages
    THEN \* db.session.delete(None) raises
         /\ Respond("messages_destroy", c, message_id, "ServerError", <<>>)
         /\ UNCHANGED <<stores, session, nextUserId, nextMsgId, clock>>
    ELSE /\ messages' = Drop(messages, {message_id})
         /\ likes' = LikesWithoutMessages(likes, {message_id})
         /\ Respond("messages_destroy", c, message_id, "RedirectProfile", <<>>)
         /\ UNCHANGED <<users, follows, session, nextUserId, nextMsgId, clock>>

\* ----------------------------------------------------------- homepage
\* A slip in the handler: the viewer's own id joins the list.
list_of_following_ids_and_self(u) == {u} \cup {p[2] : p \in {q \in follows : q[1] = u}}

\* for user in g.user.following: list_of_following_ids.append(user.id)
list_of_following_ids(u) == {p[2] : p \in {q \in follows : q[1] = u}}

\* .order_by(Message.timestamp.desc()): every listing of S, each message once,
\* with timestamps non-increasing (the store orders equal timestamps as it likes).
order_by_timestamp_desc(S) ==
    {s \in [1..Cardinality(S) -> S] :
        /\ \A i, j \in 1..Cardinality(S) : i # j => s[i] # s[j]
        /\ \A i, j \in 1..Cardinality(S) :
              i < j => messages[s[i]].timestamp >= messages[s[j]].timestamp}

\* .limit(n)
limit(s, n) == SubSeq(s, 1, IF Len(s) < n THEN Len(s) ELSE n)

\* The homepage query of a logged-in user u.
home_messages(u) ==
    {limit(s, TimelineLimit) :
        s \in order_by_timestamp_desc(
                {m \in DOMAIN messages :
                    messages[m].user_id \in list_of_following_ids(u)})}

homepage(c) ==
    LET u == g_user(c) IN
    /\ IF u = NoKey
       THEN Respond("homepage", c, 0, "HomeAnon", <<>>)
       ELSE \E tl \in home_messages(u) : Respond("homepage", c, 0, "Home", tl)
    /\ UNCHANGED <<stores, session, nextUserId, nextMsgId, clock>>

\* -------------------------------------------------- profile and likes
\* Likes.query.filter(Likes.user_id == g.user.id): the message ids of its rows
list_of_liked_message_ids(u) == {e[2] : e \in {x \in DOMAIN likes : x[1] = u}}

\* Message.query.filter(Message.user_id == user_id)
messages_of(user_id) == {m \in DOMAIN messages : messages[m].user_id = user_id}

users_show(c, user_id) ==
    /\ IF user_id \notin DOMAIN users
       THEN Respond("users_show", c, user_id, "NotFound", <<>>)
       ELSE IF g_user(c) = NoKey
       THEN \* g.user.id with g.user None raises
            Respond("users_show", c, user_id, "ServerError", <<>>)
       ELSE \E ms \in {limit(s, TimelineLimit) :
                          s \in order_by_timestamp_desc(messages_of(user_id))} :
               Respond("users_show", c, user_id, "Profile", ms)
    /\ UNCHANGED <<stores, session, nextUserId, nextMsgId, clock>>

user_likes(c, user_id) ==
    /\ IF g_user(c) = NoKey
       THEN Respond("user_likes", c, user_id, "Unauthorized", <<>>)
       ELSE IF user_id \notin DOMAIN users
       THEN Respond("user_likes", c, user_id, "NotFound", <<>>)
       ELSE \E ms \in order_by_timestamp_desc(
                         DOMAIN messages \cap list_of_liked_message_ids(g_user(c))) :
               Respond("user_likes", c, user_id, "Likes", ms)
    /\ UNCHANGED <<stores, session, nextUserId, nextMsgId, clock>>

\* ------------------------------------------------------ update_profile
\* A slip in the handler: the submitted password is not verified.
confirmed_user_unchecked(c, password) == session[c]

\* old_user_name = user.username; User.authenticate(old_user_name, form.password.data)
confirmed_user_of(c, password) == authenticate(users[session[c]].username, password)

update_profile(c, username, email, password) ==
    IF session[c] = NoKey
    THEN \* session[CURR_USER_KEY] raises KeyError
         /\ RespondForm("update_profile", c, 0, "ServerError", <<>>,
                    [username |-> username, email |-> email, password |-> password])
         /\ UNCHANGED <<stores, session, nextUserId, nextMsgId, clock>>
    ELSE IF session[c] \notin DOMAIN users
    THEN /\ RespondForm("update_profile", c, 0, "NotFound", <<>>,
                    [username |-> username, email |-> email, password |-> password])
         /\ UNCHANGED <<stores, session, nextUserId, nextMsgId, clock>>
    ELSE LET confirmed_user == confirmed_user_of(c, password)
         IN
         IF confirmed_user = NoKey
         THEN /\ RespondForm("update_profile", c, 0, "WrongPassword", <<>>,
                    [username |-> username, email |-> email, password |-> password])
              /\ UNCHANGED <<stores, session, nextUserId, nextMsgId, clock>>
         ELSE IF IntegrityError(username, email, confirmed_user)
         THEN \* the commit raises, nothing handles it
              /\ RespondForm("update_profile", c, 0, "ServerError", <<>>,
                    [username |-> username, email |-> email, password |-> password])
              /\ UNCHANGED <<stores, session, nextUserId, nextMsgId, clock>>
         ELSE /\ users' = [users EXCEPT ![confirmed_user].username = username,
                                        ![confirmed_user].email = email]
              /\ RespondForm("update_profile", c, 0, "RedirectProfile", <<>>,
                    [username |-> username, email |-> email, password |-> password])
              /\ UNCHANGED <<messages, follows, likes, session, nextUserId,
                             nextMsgId, clock>>

\* ------------------------------------------------------------ add_like
\* A slip: the scan of the like rows never finds the message.
message_is_liked_never(message_id) == FALSE

\* Likes.query.all() holds a row for message_id
message_is_liked(message_id) == \E e \in DOMAIN likes : e[2] = message_id

\* Likes.query.filter(Likes.message_id == message_id).first(): any such row
first_like_of(message_id) == {e \in DOMAIN likes : e[2] = message_id}

add_like(c, message_id) ==
    IF message_is_liked(message_id)
    THEN \E unlike \in first_like_of(message_id) :
            /\ likes' = likes (-) SetToBag({unlike})
            \* the redirect reads g.user.id after the commit
            /\ Respond("add_like", c, message_id,
                       IF g_user(c) = NoKey THEN "ServerError" ELSE "RedirectLikes",
                       <<>>)
            /\ UNCHANGED <<users, messages, follows, session, nextUserId,
                           nextMsgId, clock>>
    ELSE IF session[c] = NoKey
    THEN \* session[CURR_USER_KEY] raises KeyError
         /\ Respond("add_like", c, message_id, "ServerError", <<>>)
         /\ UNCHANGED <<stores, session, nextUserId, nextMsgId, clock>>
    ELSE IF session[c] \notin DOMAIN users
    THEN /\ Respond("add_like", c, message_id, "NotFound", <<>>)
         /\ UNCHANGED <<stores, session, nextUserId, nextMsgId, clock>>
    ELSE IF message_id \notin DOMAIN messages
    THEN \* the like row's foreign key has no message: the commit raises
         /\ Respond("add_like", c, message_id, "ServerError", <<>>)
         /\ UNCHANGED <<stores, session, nextUserId, nextMsgId, clock>>
    ELSE /\ likes' = likes (+) OneLike(session[c], message_id)
         /\ Respond("add_like", c, message_id, "RedirectHome", <<>>)
         /\ UNCHANGED <<users, messages, follows, session, nextUserId,
                        nextMsgId, clock>>

\* ------------------------------------- add_like served by two workers
\* The deployment may run several workers against one database: a worker
\* serving add_like reads the like rows (l.530-534), and the other worker may
\* run between that read and the branch taken on it (l.535-544).
Workers == {"w1", "w2"}

NoPending == [on |-> FALSE, client |-> "c1", message_id |-> 0, liked |-> FALSE,
              key |-> NoKey, g |-> NoKey]

\* before_request and l.530-534: the session cookie and g.user are those of
\* the request's arrival; the scan of Likes.query.all() decides the branch.
add_like_read(w, c, message_id) ==
    /\ ~pending[w].on
    /\ pending' = [pending EXCEPT ![w] =
                      [on |-> TRUE, client |-> c, message_id |-> message_id,
                       liked |-> message_is_liked(message_id),
                       key |-> session[c], g |-> g_user(c)]]
    /\ UNCHANGED <<stores, session, nextUserId, nextMsgId, clock, nreq, last,
                   pre, pre2>>

\* l.535-544 against the rows as they are now.
add_like_write(w) ==
    LET r == pending[w] IN
    /\ r.on
    /\ pending' = [pending EXCEPT ![w] = NoPending]
    /\ IF r.liked
       THEN IF first_like_of(r.message_id) = {}
            THEN \* .first() is None: db.session.delete(None) raises
                 /\ Served("add_like", r.client, r.message_id, "ServerError",
                           <<>>, NoForm)
                 /\ UNCHANGED <<stores, session, nextUserId, nextMsgId, clock>>
            ELSE \E unlike \in first_like_of(r.message_id) :
                    /\ likes' = likes (-) SetToBag({unlike})
                    /\ Served("add_like", r.client, r.message_id,
                              IF r.g = NoKey THEN "ServerError" ELSE "RedirectLikes",
                              <<>>, NoForm)
                    /\ UNCHANGED <<users, messages, follows, session, nextUserId,
                                   nextMsgId, clock>>
       ELSE IF r.key = NoKey
       THEN /\ Served("add_like", r.client, r.message_id, "ServerError", <<>>, NoForm)
            /\ UNCHANGED <<stores, session, nextUserId, nextMsgId, clock>>
       ELSE IF r.key \notin DOMAIN users
       THEN /\ Served("add_like", r.client, r.message_id, "NotFound", <<>>, NoForm)
            /\ UNCHANGED <<stores, session, nextUserId, nextMsgId, clock>>
       ELSE IF r.message_id \notin DOMAIN messages
       THEN /\ Served("add_like", r.client, r.message_id, "ServerError", <<>>, NoForm)
            /\ UNCHANGED <<stores, session, nextUserId, nextMsgId, clock>>
       ELSE /\ likes' = likes (+) OneLike(r.key, r.message_id)
            /\ Served("add_like", r.client, r.message_id, "RedirectHome", <<>>, NoForm)
            /\ UNCHANGED <<users, messages, follows, session, nextUserId,
                           nextMsgId, clock>>

Init ==
    /\ users = <<>>
    /\ messages = <<>>
    /\ follows = {}
    /\ likes = EmptyBag
    /\ session = [c \in Clients |-> NoKey]
    /\ nextUserId = 1
    /\ nextMsgId = 1
    /\ clock = 1
    /\ last = [op |-> "none", client |-> "c1", arg |-> 0, out |-> "none", view |-> <<>>,
               form |-> NoForm]
    /\ nreq = 0
    /\ pre = Snapshot
    /\ pre2 = NoPair
    /\ pending = [w \in Workers |-> NoPending]

\* The run serves at most MaxRequests requests.
Budget == nreq < MaxRequests

Next ==
    \/ Budget /\ \E c \in Clients, f \in SignupForms :
                    signup(c, f.username, f.email, f.password)
    \/ Budget /\ \E c \in Clients, n \in Usernames, p \in Passwords : login(c, n, p)
    \/ Budget /\ \E c \in Clients : logout(c)
    \/ Budget /\ \E c \in Clients, v \in UserIds : add_follow(c, v)
    \/ Budget /\ \E c \in Clients, v \in UserIds : stop_following(c, v)
    \/ Budget /\ \E c \in Clients, f \in BOOLEAN : delete_user(c, f)
    \/ Budget /\ \E c \in Clients, now \in {clock, clock + 1} \cap (1..MaxTime) :
                    messages_add(c, now)
    \/ Budget /\ \E c \in Clients, m \in MsgIds : messages_destroy(c, m)
    \/ Budget /\ \E c \in Clients : homepage(c)
    \/ Budget /\ \E c \in Clients, f \in ProfileForms, p \in Passwords :
                    update_profile(c, f.username, f.email, p)
    \/ Budget /\ \E c \in Clients, m \in MsgIds : add_like(c, m)
    \/ Budget /\ \E c \in Clients, v \in UserIds : users_show(c, v)
    \/ Budget /\ \E c \in Clients, v \in UserIds : user_likes(c, v)

Spec == Init /\ [][Next]_vars

\* Signups, posts and add_like requests, the latter served by two workers.
NextLikes ==
    \/ Budget /\ \E c \in Clients, f \in SignupForms :
                    signup(c, f.username, f.email, f.password)
    \/ Budget /\ \E c \in Clients, now \in {clock, clock + 1} \cap (1..MaxTime) :
                    messages_add(c, now)
    \/ Budget /\ \E w \in Workers, c \in Clients, m \in MsgIds : add_like_read(w, c, m)
    \/ \E w \in Workers : add_like_write(w)

SpecLikes == Init /\ [][NextLikes]_vars

\* =================================================================== claims
\* The current user of the last request, as add_user_to_g resolved it (NoKey: none).
LastUser ==
    LET i == pre.session[last.client]
    IN IF i \in DOMAIN pre.users THEN i ELSE NoKey

\* The last request left the four stores as they were.
StoresUnchanged ==
    /\ users = pre.users
    /\ messages = pre.messages
    /\ follows = pre.follows
    /\ likes = pre.likes

MutatingOps ==
    {"add_follow", "stop_following", "messages_add", "messages_destroy",
     "delete_user", "update_profile", "add_like"}

\* C1: a mutating request of a session that holds no current-user id ends
\* Unauthorized and leaves the User, Message, Follow and Like stores unchanged.
C1_UnauthenticatedRefused ==
    (last.op \in MutatingOps /\ pre.session[last.client] = NoKey)
        => (last.out = "Unauthorized" /\ StoresUnchanged)

\* C2: messages_destroy removes a message only when the requesting session's
\* current user is the message's owner.
C2_OnlyOwnerDeletes ==
    (/\ last.op = "messages_destroy"
     /\ last.arg \in DOMAIN pre.messages
     /\ last.arg \notin DOMAIN messages)
        => pre.messages[last.arg].user_id = LastUser

\* C3: when authenticated user u has no like on message m, add_like(m) by u
\* leaves u liking m, and a second add_like(m) by u right after it leaves u
\* with no like on m again.
C3_LikeIsToggle ==
    /\ (/\ last.op = "add_like"
        /\ LastUser # NoKey
        /\ last.arg \in DOMAIN pre.messages
        /\ ~BagIn(<<LastUser, last.arg>>, pre.likes))
           => BagIn(<<LastUser, last.arg>>, likes)
    /\ (/\ last.op = "add_like"
        /\ pre2.on
        /\ pre2.op = "add_like"
        /\ pre2.snap.session[last.client] \in DOMAIN pre2.snap.users
        /\ last.arg \in DOMAIN pre2.snap.messages
        /\ ~BagIn(<<pre2.snap.session[last.client], last.arg>>, pre2.snap.likes))
           => ~BagIn(<<pre2.snap.session[last.client], last.arg>>, likes)

\* C4: add_like(m) by u changes at most the Like edge (u, m): every other
\* edge, of any user and any message, is there after the request exactly as
\* often as before.
C4_LikeFrame ==
    (last.op = "add_like" /\ LastUser # NoKey)
        => \A e \in DOMAIN likes \cup DOMAIN pre.likes :
              e # <<LastUser, last.arg>>
                  => CopiesIn(e, likes) = CopiesIn(e, pre.likes)

\* C5: a delete_user that completes for authenticated user u removes the user
\* record u and every message u owned (a lookup of u is then NotFound) and
\* keeps every other user record and every message of another owner as it was.
C5_DeleteUserRemovesOwn ==
    (last.op = "delete_user" /\ last.out = "RedirectSignup")
        => /\ LastUser # NoKey
           /\ LastUser \notin DOMAIN users
           /\ \A m \in DOMAIN pre.messages :
                 IF pre.messages[m].user_id = LastUser
                 THEN m \notin DOMAIN messages
                 ELSE m \in DOMAIN messages /\ messages[m] = pre.messages[m]
           /\ \A m \in DOMAIN messages : m \in DOMAIN pre.messages
           /\ \A v \in DOMAIN pre.users \ {LastUser} :
                 v \in DOMAIN users /\ users[v] = pre.users[v]

\* A user who owns a message deletes the account while another user's message
\* is in the store.
C5_Witness ==
    /\ last.op = "delete_user"
    /\ last.out = "RedirectSignup"
    /\ \E m \in DOMAIN pre.messages : pre.messages[m].user_id = LastUser
    /\ \E m \in DOMAIN pre.messages : pre.messages[m].user_id # LastUser
    /\ messages # <<>>

\* C6: a delete_user that does not complete (the deletion of the user record
\* fails after the messages were deleted) leaves the persisted stores as they
\* were before the request.
C6_DeleteUserAtomic ==
    (last.op = "delete_user" /\ last.out # "RedirectSignup") => StoresUnchanged

\* C7: after delete_user completes for user u, no client session holds u's id.
C7_NoSessionRefersToDeleted ==
    (last.op = "delete_user" /\ last.out = "RedirectSignup")
        => \A c \in Clients : session[c] # LastUser

\* C8: the home timeline of an authenticated user u lists, each once and in
\* descending timestamp order, the (at most TimelineLimit) most recent messages
\* whose owner u follows, and no message of any other owner.
C8_HomeTimeline ==
    (last.op = "homepage" /\ LastUser # NoKey)
        => LET F  == {v \in DOMAIN users : <<LastUser, v>> \in follows}
               S  == {m \in DOMAIN messages : messages[m].user_id \in F}
               tl == last.view
               n  == Len(tl)
           IN /\ last.out = "Home"
              /\ n = IF Cardinality(S) < TimelineLimit THEN Cardinality(S)
                     ELSE TimelineLimit
              /\ \A i \in 1..n : tl[i] \in S
              /\ \A i, j \in 1..n :
                    i < j => /\ tl[i] # tl[j]
                             /\ messages[tl[i]].timestamp >= messages[tl[j]].timestamp
              /\ \A m \in S \ {tl[i] : i \in 1..n} :
                    \A i \in 1..n : messages[m].timestamp <= messages[tl[i]].timestamp

\* The timeline of a user shows a followed user's message and leaves out a
\* message of an owner the user does not follow.
C8_Witness ==
    /\ last.op = "homepage"
    /\ last.out = "Home"
    /\ Len(last.view) >= 1
    /\ \E m \in DOMAIN messages :
          /\ \A i \in 1..Len(last.view) : last.view[i] # m
          /\ <<LastUser, messages[m].user_id>> \notin follows

\* The first request of an add_follow(v) ; stop_following(v) pair of one client
\* came from an authenticated user and named an existing user.
FollowPair ==
    /\ last.op = "stop_following"
    /\ pre2.on
    /\ pre2.op = "add_follow"
    /\ pre2.snap.session[last.client] \in DOMAIN pre2.snap.users
    /\ last.arg \in DOMAIN pre2.snap.users

\* C9 as stated: add_follow(v) by u immediately followed by stop_following(v)
\* by u leaves the follow edges as they were before the two requests, whether
\* or not u followed v beforehand.
C9_FollowUnfollowRestores ==
    FollowPair => follows = pre2.snap.follows

\* C9 as amended: the pair of requests leaves the follow edges as they were
\* before it when u did not follow v beforehand; when u did, the edges after
\* the pair are those before it without (u, v).
C9_FollowUnfollowRemovesEdge ==
    FollowPair
        => LET e == <<pre2.snap.session[last.client], last.arg>>
           IN /\ last.out = "RedirectFollowing"
              /\ e \notin pre2.snap.follows => follows = pre2.snap.follows
              /\ e \in pre2.snap.follows => follows = pre2.snap.follows \ {e}

\* A user follows and at once unfollows a user not followed before, while the
\* store holds other edges.
C9_Witness ==
    /\ FollowPair
    /\ <<pre2.snap.session[last.client], last.arg>> \notin pre2.snap.follows
    /\ pre2.snap.follows # {}
    /\ last.out = "RedirectFollowing"

\* C10: add_follow(v) by an authenticated user u who already follows v
\* succeeds (the redirect to u's following list) and leaves the follow edges
\* unchanged.
C10_AddFollowIdempotent ==
    (/\ last.op = "add_follow"
     /\ LastUser # NoKey
     /\ <<LastUser, last.arg>> \in pre.follows)
        => (last.out = "RedirectFollowing" /\ follows = pre.follows)

\* A user follows again a user already followed.
C10_Witness ==
    /\ last.op = "add_follow"
    /\ LastUser # NoKey
    /\ <<LastUser, last.arg>> \in pre.follows
    /\ last.out = "RedirectFollowing"

\* C11: a signup with a username that a user already holds, and another email
\* than that user's, leaves the User store and every session as they were and
\* redisplays the form.
C11_DuplicateUsernameSignup ==
    (/\ last.op = "signup"
     /\ \E i \in DOMAIN pre.users :
           /\ pre.users[i].username = last.form.username
           /\ pre.users[i].email # last.form.email)
        => /\ users = pre.users
           /\ session = pre.session
           /\ last.out = "SignupForm"

\* A logged-out client signs up with the username of an existing user and a
\* new email.
C11_Witness ==
    /\ last.op = "signup"
    /\ last.out = "SignupForm"
    /\ pre.session[last.client] = NoKey
    /\ \E i \in DOMAIN pre.users :
          /\ pre.users[i].username = last.form.username
          /\ pre.users[i].email # last.form.email
    /\ \A i \in DOMAIN pre.users : pre.users[i].email # last.form.email

\* C12: update_profile changes fields of the current user only, and only when
\* the submitted password verifies against the record the user had before the
\* request; with a wrong password the User store is unchanged and the request
\* ends in the error notice and the redirect home.
C12_ProfileNeedsPassword ==
    (last.op = "update_profile" /\ LastUser # NoKey)
        => /\ pre.users[LastUser].password # Hash(last.form.password)
                 => (users = pre.users /\ last.out = "WrongPassword")
           /\ DOMAIN users = DOMAIN pre.users
           /\ \A i \in DOMAIN users \ {LastUser} : users[i] = pre.users[i]

\* A logged-in user submits a changed profile with a wrong password.
C12_Witness ==
    /\ last.op = "update_profile"
    /\ LastUser # NoKey
    /\ pre.users[LastUser].password # Hash(last.form.password)
    /\ pre.users[LastUser].username # last.form.username
    /\ last.out = "WrongPassword"

\* The users whose stored credentials the submitted login form matches.
Authenticated ==
    {i \in DOMAIN pre.users :
        /\ pre.users[i].username = last.form.username
        /\ pre.users[i].password = Hash(last.form.password)}

\* C13: a session comes to hold a user id only through a successful login or
\* signup of its own client; a login whose credentials do not authenticate
\* leaves every session as it was; a successful login binds the session to the
\* authenticated user and a successful signup to the user it created.
C13_SessionFromLoginOrSignup ==
    /\ \A c \in Clients :
          (session[c] # pre.session[c] /\ session[c] # NoKey)
              => /\ c = last.client
                 /\ last.op \in {"login", "signup"}
                 /\ last.out = "RedirectHome"
    /\ (last.op = "login" /\ Authenticated = {}) => session = pre.session
    /\ (last.op = "login" /\ Authenticated # {})
          => /\ session[last.client] \in Authenticated
             /\ last.out = "RedirectHome"
    /\ (last.op = "signup" /\ last.out = "RedirectHome")
          => /\ session[last.client] \in DOMAIN users \ DOMAIN pre.users
             /\ users[session[last.client]].username = last.form.username

\* A client logged in as one user submits a login that does not authenticate,
\* while another client is logged out.
C13_Witness ==
    /\ last.op = "login"
    /\ Authenticated = {}
    /\ \E i \in DOMAIN pre.users : pre.users[i].username = last.form.username
    /\ pre.session[last.client] \in DOMAIN pre.users
    /\ \E c \in Clients : session[c] = NoKey

\* C14: a logout request completes without error and leaves its session with
\* no user id, also when the session was logged out already or holds the id
\* of a deleted user.
C14_LogoutClears ==
    last.op = "logout"
        => (last.out = "RedirectLogin" /\ session[last.client] = NoKey)

\* C15: under any interleaving of add_like requests, two concurrent requests
\* of one user for one message included, the Like store holds at most one
\* row per (user, message) pair.
C15_OneEdgePerPair ==
    \A e \in DOMAIN likes : CopiesIn(e, likes) <= 1

\* C16: no two user records share a username and no two share an email; an
\* update_profile that would give its user a username or an email held by
\* another user leaves the User store unchanged.
C16_UniqueUsernameEmail ==
    /\ \A i, j \in DOMAIN users :
          i # j => /\ users[i].username # users[j].username
                   /\ users[i].email # users[j].email
    /\ (/\ last.op = "update_profile"
        /\ LastUser # NoKey
        /\ \E j \in DOMAIN pre.users \ {LastUser} :
              \/ pre.users[j].username = last.form.username
              \/ pre.users[j].email = last.form.email)
          => users = pre.users

\* A user who gave the right password asked for the email of another user.
C16_Witness ==
    /\ last.op = "update_profile"
    /\ LastUser # NoKey
    /\ pre.users[LastUser].password = Hash(last.form.password)
    /\ pre.users[LastUser].username = last.form.username
    /\ \E j \in DOMAIN pre.users \ {LastUser} : pre.users[j].email = last.form.email
    /\ users = pre.users

\* C17: every message has one owner and the owner is a user of the User
\* store; messages_add attaches the new message to the requesting current
\* user, and delete_user and messages_destroy leave no message of a deleted
\* user behind.
C17_MessagesHaveOwners ==
    /\ \A m \in DOMAIN messages : messages[m].user_id \in DOMAIN users
    /\ (last.op = "messages_add" /\ last.out = "RedirectProfile")
          => /\ LastUser # NoKey
             /\ \E m \in DOMAIN messages :
                   /\ DOMAIN messages = DOMAIN pre.messages \cup {m}
                   /\ m \notin DOMAIN pre.messages
                   /\ messages[m].user_id = LastUser
                   /\ \A k \in DOMAIN pre.messages : messages[k] = pre.messages[k]

\* A user who had posted was deleted, while a message of another user stays.
C17_Witness ==
    /\ last.op = "delete_user"
    /\ last.out = "RedirectSignup"
    /\ \E m \in DOMAIN pre.messages : pre.messages[m].user_id = LastUser
    /\ DOMAIN messages # {}

\* The messages of a listing.
Listed(view) == {view[i] : i \in DOMAIN view}

\* C18: the likes listing requested for user x by an authenticated viewer is
\* exactly the messages liked by x, newest first, also when x is not the
\* viewer.
C18_LikesListingOfRequestedUser ==
    (last.op = "user_likes" /\ last.out = "Likes")
        => /\ Listed(last.view) =
                 {e[2] : e \in {x \in DOMAIN pre.likes : x[1] = last.arg}}
           /\ \A i, j \in DOMAIN last.view :
                 i < j => /\ last.view[i] # last.view[j]
                          /\ pre.messages[last.view[i]].timestamp
                                >= pre.messages[last.view[j]].timestamp

\* C19: the profile view needs no authentication: for an existing user id a
\* request from a session with no current user yields the profile view and
\* not an error outcome.
C19_ProfileNeedsNoAuthentication ==
    (/\ last.op = "users_show"
     /\ last.arg \in DOMAIN pre.users
     /\ pre.session[last.client] = NoKey)
        => last.out = "Profile"

\* The like rows of bag b on message m.
LikesOn(b, m) == {e \in DOMAIN b : e[2] = m}

\* C20: with add_like requests served one at a time, each message has at
\* most one like row in total across all users: add_like inserts a row for
\* message m only when no user likes m, and otherwise removes one row on m.
C20_OneLikePerMessage ==
    /\ \A m \in MsgIds :
          /\ Cardinality(LikesOn(likes, m)) <= 1
          /\ \A e \in LikesOn(likes, m) : CopiesIn(e, likes) = 1
    /\ last.op = "add_like"
          => IF LikesOn(pre.likes, last.arg) # {}
             THEN \E e \in LikesOn(pre.likes, last.arg) :
                     likes = pre.likes (-) SetToBag({e})
             ELSE \/ likes = pre.likes
                  \/ /\ LastUser # NoKey
                     /\ likes = pre.likes (+) OneLike(LastUser, last.arg)

\* A user asked to like a message that only another user liked, and that
\* user's like is gone.
C20_Witness ==
    /\ last.op = "add_like"
    /\ LastUser # NoKey
    /\ \E e \in LikesOn(pre.likes, last.arg) : e[1] # LastUser
    /\ LikesOn(likes, last.arg) = {}
====
